---- MODULE Spec2Model ----
(***************************************************************************)
(* Model of the etag module: the tag codec (encode / decode), the          *)
(* conditional matcher (ifMatch / ifNoneMatch) and the middleware that     *)
(* factory returns.                                                        *)
(*                                                                         *)
(* src/mod.ts holds two versions of the module.  Lines 1-325 are version   *)
(* 0.0.2 (helpers in src/_util.ts); lines 326-643 are version 0.0.1        *)
(* (helpers in ./helpers.ts, which is src/unnamed/part_001).  Definitions  *)
(* of version 0.0.2 carry the source's names; those of version 0.0.1 carry *)
(* the same names with the suffix _1.  The variable `version` says which   *)
(* of the two is loaded.                                                   *)
(*                                                                         *)
(* JavaScript strings are sequences of one-character strings.  A text      *)
(* entity is a sequence of Unicode code points.  A JavaScript value that   *)
(* may be a number, a Date, a string, null or missing is a record with     *)
(* fields t (its type), nan, v and exp (its numeric value is v * 16^exp)   *)
(* and len.                                                                *)
(***************************************************************************)
EXTENDS Integers, Sequences, FiniteSets, TLC

VARIABLES version, entity, options, now, tag, decoded, cond, response, run

vars == <<version, entity, options, now, tag, decoded, cond, response, run>>

(***************************************************************************)
(* Bounds of the model.                                                    *)
(***************************************************************************)
MaxLen == 1
MaxTicks == 1
MaxPasses == 2

(* The first clock reading (Date.now()) of a behaviour. *)
Epoch == 1000

(***************************************************************************)
(* Program constants.                                                      *)
(***************************************************************************)
ETAG_EMPTY ==
  <<"\"", "0", "-", "2", "j", "m", "j", "7", "l", "5", "r", "S", "w", "0",
    "y", "V", "b", "/", "v", "l", "W", "A", "Y", "k", "K", "/", "Y", "B",
    "w", "k", "=", "\"">>
ETAG_LENGTH == 27
ETAG_RADIX == 16
ETAG_MTIME_LENGTH == 12

ETAG_EMPTY_1 ==
  <<"\"", "0", "-", "2", "j", "m", "j", "7", "l", "5", "r", "S", "w", "0",
    "y", "V", "b", "/", "v", "l", "W", "A", "Y", "k", "K", "/", "Y", "B",
    "w", "k", "=", "\"">>
ETAG_LENGTH_1 == 27
ETAG_RADIX_1 == 16
ETAG_MTIME_LENGTH_1 == 12

(***************************************************************************)
(* JavaScript values.                                                      *)
(***************************************************************************)
Val(t, nan, v, len) ==
  [t |-> t, nan |-> nan, v |-> v, len |-> len, exp |-> 0]
Absent == Val("absent", FALSE, 0, 0)
Null == Val("null", FALSE, 0, 0)
Num(n) == Val("number", FALSE, n, 0)
NaN == Val("number", TRUE, 0, 0)
DateOf(ms) == Val("Date", FALSE, ms, 0)
(* The Date of v * 16^exp milliseconds, a time past the integers at hand. *)
DateOfScaled(v, exp) == [DateOf(v) EXCEPT !.exp = exp]
InvalidDate == Val("Date", TRUE, 0, 0)
(* A string of len characters that Date parses to ms. *)
DateStr(ms, len) == Val("string", FALSE, ms, len)
(* A string of len characters that Date cannot parse. *)
BadStr(len) == Val("string", TRUE, 0, len)

(* is.number: a number that is not NaN. *)
isNumber(x) == x.t = "number" /\ ~x.nan
isNullish(x) == x.t \in {"absent", "undefined", "null"}
(* ToBoolean *)
truthy(x) ==
  CASE x.t = "number" -> ~x.nan /\ x.v # 0
    [] x.t = "string" -> x.len > 0
    [] x.t = "Date" -> TRUE
    [] OTHER -> FALSE

(* new Date(x).getTime() *)
getTime(x) ==
  CASE x.t = "number" -> x
    [] x.t = "Date" -> [x EXCEPT !.t = "number"]
    [] x.t = "string" -> [x EXCEPT !.t = "number", !.len = 0]
    [] x.t = "null" -> Num(0)
    [] OTHER -> NaN

HexDigits ==
  <<"0", "1", "2", "3", "4", "5", "6", "7", "8", "9",
    "a", "b", "c", "d", "e", "f">>

RECURSIVE natToString(_, _)
natToString(n, radix) ==
  IF n < radix THEN <<HexDigits[n + 1]>>
  ELSE natToString(n \div radix, radix) \o <<HexDigits[(n % radix) + 1]>>

(* Number.prototype.toString(radix); the model's radix is 16, in which a  *)
(* factor of 16^exp is exp further digits 0.                             *)
toString(x, radix) ==
  IF x.nan THEN <<"N", "a", "N">>
  ELSE IF x.v < 0 THEN <<"-">> \o natToString(0 - x.v, radix)
  ELSE natToString(x.v, radix) \o [i \in 1..x.exp |-> "0"]

(***************************************************************************)
(* Entities: text, Uint8Array, ArrayBuffer, objects (file-metadata records *)
(* and node Stats instances), null and undefined.  data holds the code     *)
(* points of a text and the bytes of a buffer.                             *)
(***************************************************************************)
Ent(t, data, stats, ino, size, mtime, ctime) ==
  [t |-> t, data |-> data, stats |-> stats, ino |-> ino, size |-> size,
   mtime |-> mtime, ctime |-> ctime]
Text(cps) == Ent("string", cps, FALSE, Absent, Absent, Absent, Absent)
Uint8(bytes) == Ent("Uint8Array", bytes, FALSE, Absent, Absent, Absent, Absent)
Buffer(bytes) == Ent("ArrayBuffer", bytes, FALSE, Absent, Absent, Absent, Absent)
Info(ino, size, mtime, ctime) == Ent("object", <<>>, FALSE, ino, size, mtime, ctime)
Stats(ino, size, mtime, ctime) == Ent("object", <<>>, TRUE, ino, size, mtime, ctime)
NullEntity == Ent("null", <<>>, FALSE, Absent, Absent, Absent, Absent)
UndefinedEntity == Ent("undefined", <<>>, FALSE, Absent, Absent, Absent, Absent)

(* is.nonEmptyObject: an object with at least one own enumerable key. *)
isNonEmptyObject(obj) ==
  \/ obj.t = "Uint8Array" /\ Len(obj.data) > 0
  \/ obj.t = "object" /\ \E f \in {obj.ino, obj.size, obj.mtime, obj.ctime} : f.t # "absent"

isFileInfo(obj) ==
  IF obj.t = "object" /\ obj.stats THEN TRUE
  ELSE /\ obj.t \notin {"null", "undefined"}
       /\ ~(obj.t = "string" /\ Len(obj.data) = 0)
       /\ isNonEmptyObject(obj)
       /\ obj.ino.t # "absent"
       /\ obj.size.t # "absent"
       /\ obj.mtime.t # "absent"
       /\ obj.ctime.t # "absent"
       /\ (isNumber(obj.ino) \/ isNumber(obj.size))
       /\ obj.mtime.t \in {"Date", "string", "number"}
       /\ (obj.mtime.t = "number" => isNumber(obj.mtime))
       /\ isNumber(obj.size)

isFileInfo_1(obj) ==
  IF obj.t = "object" /\ obj.stats THEN TRUE
  ELSE /\ obj.t \notin {"null", "undefined"}
       /\ ~(obj.t = "string" /\ Len(obj.data) = 0)
       /\ isNonEmptyObject(obj)
       /\ obj.mtime.t # "absent"
       /\ obj.ino.t # "absent"
       /\ obj.size.t # "absent"
       /\ obj.mtime.t \in {"Date", "string", "number"}
       /\ (obj.mtime.t = "number" => isNumber(obj.mtime))
       /\ (isNumber(obj.ino) \/ isNumber(obj.size))
       /\ isNumber(obj.size)

(***************************************************************************)
(* The characters and bytes of the model's entities: a, e with acute       *)
(* accent (two UTF-8 bytes), an emoji (four UTF-8 bytes); the bytes 0, 255.*)
(***************************************************************************)
CodePoints == {97, 233, 128512}
ByteValues == {0, 255}

SeqsUpTo(S, n) == UNION {[1..k -> S] : k \in 0..n}

(***************************************************************************)
(* TextEncoder.encode: the UTF-8 bytes of a text, and String.length: its   *)
(* number of UTF-16 code units.                                            *)
(***************************************************************************)
utf8Char(cp) ==
  IF cp < 128 THEN <<cp>>
  ELSE IF cp < 2048 THEN <<192 + (cp \div 64), 128 + (cp % 64)>>
  ELSE IF cp < 65536
    THEN <<224 + (cp \div 4096), 128 + ((cp \div 64) % 64), 128 + (cp % 64)>>
  ELSE <<240 + (cp \div 262144), 128 + ((cp \div 4096) % 64),
         128 + ((cp \div 64) % 64), 128 + (cp % 64)>>

RECURSIVE utf8Encode(_)
utf8Encode(cps) ==
  IF cps = <<>> THEN <<>> ELSE utf8Char(Head(cps)) \o utf8Encode(Tail(cps))

RECURSIVE stringLength(_)
stringLength(cps) ==
  IF cps = <<>> THEN 0
  ELSE (IF Head(cps) >= 65536 THEN 2 ELSE 1) + stringLength(Tail(cps))

(***************************************************************************)
(* The digest primitive crypto.subtle.digestSync of the standard library,  *)
(* for SHA-1: 20 bytes, a function of the bytes alone.  The digest         *)
(* of no bytes is SHA-1's (da39a3ee 5e6b4b0d 3255bfef 95601890 afd80709);  *)
(* the digest of other inputs is a stand-in that mixes the bytes.          *)
(***************************************************************************)
SHA1_EMPTY ==
  <<218, 57, 163, 238, 94, 107, 75, 13, 50, 85, 191, 239, 149, 96, 24, 144,
    175, 216, 7, 9>>

RECURSIVE mix(_, _)
mix(bytes, acc) ==
  IF bytes = <<>> THEN acc
  ELSE mix(Tail(bytes), (acc * 31 + Head(bytes) + 17) % 65521)

RECURSIVE spread(_, _, _)
spread(seed, i, acc) ==
  IF i > 20 THEN acc
  ELSE spread(seed, i + 1, Append(acc, (seed * (2 * i + 1) + i * i * 13) % 256))

subtleDigestSync(bytes) ==
  IF bytes = <<>> THEN SHA1_EMPTY
  ELSE spread(mix(bytes, Len(bytes)), 1, <<>>)

(* base64.encode of the standard library, on bytes. *)
B64 ==
  <<"A", "B", "C", "D", "E", "F", "G", "H", "I", "J", "K", "L", "M", "N", "O",
    "P", "Q", "R", "S", "T", "U", "V", "W", "X", "Y", "Z", "a", "b", "c", "d",
    "e", "f", "g", "h", "i", "j", "k", "l", "m", "n", "o", "p", "q", "r", "s",
    "t", "u", "v", "w", "x", "y", "z", "0", "1", "2", "3", "4", "5", "6", "7",
    "8", "9", "+", "/">>

(* The four characters that encode the three bytes b1, b2, b3. *)
quad(b1, b2, b3) ==
  <<B64[(b1 \div 4) + 1], B64[((b1 % 4) * 16 + (b2 \div 16)) + 1],
    B64[((b2 % 16) * 4 + (b3 \div 64)) + 1], B64[(b3 % 64) + 1]>>

RECURSIVE base64From(_, _, _)
base64From(bs, i, acc) ==
  IF i > Len(bs) THEN acc
  ELSE IF i = Len(bs)
    THEN acc \o SubSeq(quad(bs[i], 0, 0), 1, 2) \o <<"=", "=">>
  ELSE IF i + 1 = Len(bs)
    THEN acc \o SubSeq(quad(bs[i], bs[i + 1], 0), 1, 3) \o <<"=">>
  ELSE base64From(bs, i + 3, acc \o quad(bs[i], bs[i + 1], bs[i + 2]))

base64Encode(bs) == base64From(bs, 1, <<>>)

(* The character code of a hexadecimal digit 0..15. *)
hexCharCode(d) == IF d < 10 THEN 48 + d ELSE 87 + d

(* toHex: v.toString(16) padded to two digits, as character codes *)
toHex(v) == <<hexCharCode(v \div 16), hexCharCode(v % 16)>>

(* Array.from(hash, toHex).join of the empty string *)
RECURSIVE joinHexFrom(_, _, _)
joinHexFrom(hash, i, acc) ==
  IF i > Len(hash) THEN acc ELSE joinHexFrom(hash, i + 1, acc \o toHex(hash[i]))

joinHex(hash) == joinHexFrom(hash, 1, <<>>)

(* String.prototype.slice(0, n) *)
slice(s, n) == SubSeq(s, 1, IF n < Len(s) THEN n ELSE Len(s))

(* base64.encode(Array.from(new Uint8Array(hash), toHex).join) for the    *)
(* hash of the bytes bs.                                                 *)
computeHexDigestBase64(bs) == base64Encode(joinHex(subtleDigestSync(bs)))

(* The same value, computed once for each byte string of the model's     *)
(* entities and looked up afterwards.                                    *)
DigestInputs ==
  {utf8Encode(cps) : cps \in SeqsUpTo(CodePoints, MaxLen)}
  \cup SeqsUpTo(ByteValues, MaxLen)

DigestTable == {<<bs, computeHexDigestBase64(bs)>> : bs \in DigestInputs}

hexDigestBase64(bs) ==
  IF \E p \in DigestTable : p[1] = bs
    THEN (CHOOSE p \in DigestTable : p[1] = bs)[2]
  ELSE computeHexDigestBase64(bs)

(***************************************************************************)
(* Results of a call: a returned value or a thrown error.                  *)
(***************************************************************************)
Ret(val) == [st |-> "ok", val |-> val]
Throw(err) == [st |-> "throw", val |-> err]
NoResult == [st |-> "none", val |-> <<>>]

validateEntity(e) ==
  IF e.t \in {"Uint8Array", "ArrayBuffer"} THEN Ret(e)
  ELSE IF e.t = "string" THEN Ret(Uint8(utf8Encode(e.data)))
  ELSE IF e.t \in {"null", "undefined"} THEN Throw(<<"TypeError">>)
  ELSE Ret(e)

(* digestSync taking null and undefined for no bytes. *)
digestSync_lenient(e) ==
  IF e.t \in {"null", "undefined"} THEN Ret(hexDigestBase64(<<>>))
  ELSE LET buffer == validateEntity(e) IN
       IF buffer.st = "throw" THEN buffer
       ELSE IF buffer.val.t \notin {"Uint8Array", "ArrayBuffer"}
         THEN Throw(<<"TypeError">>)
       ELSE Ret(hexDigestBase64(buffer.val.data))

(* crypto.subtle.digestSync rejects data that is not a buffer. *)
digestSync(e) ==
  LET buffer == validateEntity(e) IN
  IF buffer.st = "throw" THEN buffer
  ELSE IF buffer.val.t \notin {"Uint8Array", "ArrayBuffer"}
    THEN Throw(<<"TypeError">>)
  ELSE Ret(hexDigestBase64(buffer.val.data))

validateEntity_1(e) ==
  IF e.t \in {"Uint8Array", "ArrayBuffer"} THEN Ret(e)
  ELSE IF e.t = "string" THEN Ret(Uint8(utf8Encode(e.data)))
  ELSE IF e.t \in {"null", "undefined"} THEN Throw(<<"TypeError">>)
  ELSE Ret(e)

digestSync_1(e) ==
  LET buffer == validateEntity_1(e) IN
  IF buffer.st = "throw" THEN buffer
  ELSE IF buffer.val.t \notin {"Uint8Array", "ArrayBuffer"}
    THEN Throw(<<"TypeError">>)
  ELSE Ret(hexDigestBase64(buffer.val.data))

(***************************************************************************)
(* Options: the argument left out (undefined), null, a boolean, an object  *)
(* with the keys weak and statTag (each absent, undefined, true or false), *)
(* or another value without those keys (a number, a string).              *)
(***************************************************************************)
Opt(t, b, weak, statTag) == [t |-> t, b |-> b, weak |-> weak, statTag |-> statTag]
NoOptions == Opt("undefined", FALSE, "absent", "absent")
NullOptions == Opt("null", FALSE, "absent", "absent")
BoolOptions(b) == Opt("boolean", b, "absent", "absent")
ObjOptions(weak, statTag) == Opt("object", FALSE, weak, statTag)
NumOptions == Opt("number", FALSE, "absent", "absent")

(* { weak: false, statTag: false, ...(options ?? {}) } *)
spreadDefaults(o) ==
  [weak |-> IF o.weak = "absent" THEN "false" ELSE o.weak,
   statTag |-> IF o.statTag = "absent" THEN "false" ELSE o.statTag]

(* normalize without the boolean shorthand. *)
normalize_objectOnly(o) == spreadDefaults(o)

(* is.boolean(options) ? { weak: Boolean(options), statTag: false } : ... *)
normalize(o) ==
  IF o.t = "boolean"
    THEN [weak |-> IF o.b THEN "true" ELSE "false", statTag |-> "false"]
  ELSE spreadDefaults(o)

(* The object opt, passed on as an options argument. *)
asOptions(opt) == ObjOptions(opt.weak, opt.statTag)

Quote == <<"\"">>
Dash == <<"-">>
WeakPrefix == <<"W", "/">>

(***************************************************************************)
(* encode, version 0.0.2.  t is the reading of Date.now().                 *)
(***************************************************************************)
calcStatTag(e, t) ==
  LET mtime == toString(getTime(IF truthy(e.mtime) THEN e.mtime ELSE Num(t)),
                        16)
      size == IF isNullish(e.size) THEN <<"u", "n", "d", "e", "f", "i", "n", "e", "d">>
              ELSE toString(e.size, 16)
  IN Ret(Quote \o size \o Dash \o mtime \o Quote)

(* calcEntityTag with the digest left at its full length. *)
calcEntityTag_unsliced(e) ==
  IF e.t = "Uint8Array" /\ Len(e.data) = 0 THEN Ret(ETAG_EMPTY)
  ELSE
    LET length == IF e.t = "string" THEN stringLength(e.data)
                  ELSE IF e.t = "ArrayBuffer" THEN Len(e.data)
                  ELSE 0
        bytes == IF e.t = "string" THEN Uint8(utf8Encode(e.data))
                 ELSE IF e.t = "ArrayBuffer" THEN Uint8(e.data)
                 ELSE e
        digest == digestSync(bytes)
    IN IF digest.st = "throw" THEN digest
       ELSE Ret(Quote \o natToString(length, ETAG_RADIX) \o Dash
                \o digest.val \o Quote)

calcEntityTag(e) ==
  IF e.t = "Uint8Array" /\ Len(e.data) = 0 THEN Ret(ETAG_EMPTY)
  ELSE
    LET length == IF e.t = "string" THEN stringLength(e.data)
                  ELSE IF e.t = "ArrayBuffer" THEN Len(e.data)
                  ELSE 0
        bytes == IF e.t = "string" THEN Uint8(utf8Encode(e.data))
                 ELSE IF e.t = "ArrayBuffer" THEN Uint8(e.data)
                 ELSE e
        digest == digestSync(bytes)
    IN IF digest.st = "throw" THEN digest
       ELSE Ret(Quote \o natToString(length, ETAG_RADIX) \o Dash
                \o slice(digest.val, ETAG_LENGTH) \o Quote)

encode(e, o, t) ==
  LET opt == normalize(o)
      hasFileInfo == isFileInfo(e) \/ (isFileInfo(e) /\ opt.statTag = "true")
      result == IF hasFileInfo THEN calcStatTag(e, t) ELSE calcEntityTag(e)
      prefix == IF opt.weak = "true" \/ hasFileInfo THEN WeakPrefix ELSE <<>>
  IN IF result.st = "throw" THEN result ELSE Ret(prefix \o result.val)

(***************************************************************************)
(* encode, version 0.0.1.                                                  *)
(***************************************************************************)
calcStatTag_1(e, t) ==
  LET mtime == toString(getTime(IF isNullish(e.mtime) THEN Num(t) ELSE e.mtime),
                        16)
      size == IF isNullish(e.size) THEN <<"u", "n", "d", "e", "f", "i", "n", "e", "d">>
              ELSE toString(e.size, 16)
  IN Ret(Quote \o size \o Dash \o mtime \o Quote)

calcEntityTag_1(e) ==
  IF e.t = "Uint8Array" /\ Len(e.data) = 0 THEN Ret(ETAG_EMPTY_1)
  ELSE
    LET bytes == IF e.t = "string" THEN Uint8(utf8Encode(e.data))
                 ELSE IF e.t = "ArrayBuffer" THEN Uint8(e.data)
                 ELSE e
        length == IF bytes.t = "Uint8Array"
                    THEN natToString(Len(bytes.data), ETAG_RADIX_1)
                  ELSE <<"0">>
        digest == digestSync_1(bytes)
    IN IF digest.st = "throw" THEN digest
       ELSE Ret(Quote \o length \o Dash \o slice(digest.val, ETAG_LENGTH_1)
                \o Quote)

encode_1(e, o, t) ==
  LET opt == normalize(o)
      hasFileInfo == isFileInfo_1(e)
      weak == IF opt.weak \in {"undefined", "null"} THEN hasFileInfo
              ELSE opt.weak = "true"
      result == IF hasFileInfo \/ (hasFileInfo /\ opt.statTag = "true")
                  THEN calcStatTag_1(e, t)
                ELSE calcEntityTag_1(e)
  IN IF result.st = "throw" THEN result
     ELSE Ret(IF weak THEN WeakPrefix \o result.val ELSE result.val)

(***************************************************************************)
(* String helpers of the JavaScript runtime.                               *)
(***************************************************************************)
isSpace(c) == c \in {" ", "\t"}

RECURSIVE trimStart(_)
trimStart(s) ==
  IF s # <<>> /\ isSpace(Head(s)) THEN trimStart(Tail(s)) ELSE s

RECURSIVE trimEnd(_)
trimEnd(s) ==
  IF s # <<>> /\ isSpace(s[Len(s)]) THEN trimEnd(SubSeq(s, 1, Len(s) - 1))
  ELSE s

trim(s) == trimEnd(trimStart(s))

startsWith(s, p) == Len(s) >= Len(p) /\ SubSeq(s, 1, Len(p)) = p

(* Array.prototype.includes *)
includes(list, x) == \E i \in 1..Len(list) : list[i] = x

(* The first index from i on that holds no white space. *)
RECURSIVE skipSpace(_, _)
skipSpace(s, i) ==
  IF i <= Len(s) /\ isSpace(s[i]) THEN skipSpace(s, i + 1) ELSE i

(* value.split on a comma with optional white space on either side *)
RECURSIVE splitCommaFrom(_, _, _, _)
splitCommaFrom(s, i, cur, acc) ==
  IF i > Len(s) THEN Append(acc, cur)
  ELSE LET j == skipSpace(s, i) IN
       IF j <= Len(s) /\ s[j] = ","
         THEN splitCommaFrom(s, skipSpace(s, j + 1), <<>>, Append(acc, cur))
       ELSE splitCommaFrom(s, i + 1, Append(cur, s[i]), acc)

(* A value without a comma is its own single piece. *)
splitComma(s) ==
  IF \A i \in 1..Len(s) : s[i] # "," THEN <<s>>
  ELSE splitCommaFrom(s, 1, <<>>, <<>>)

(* value.split on the dash *)
RECURSIVE splitDashFrom(_, _, _, _)
splitDashFrom(s, i, cur, acc) ==
  IF i > Len(s) THEN Append(acc, cur)
  ELSE IF s[i] = "-" THEN splitDashFrom(s, i + 1, <<>>, Append(acc, cur))
  ELSE splitDashFrom(s, i + 1, Append(cur, s[i]), acc)

splitDash(s) == splitDashFrom(s, 1, <<>>, <<>>)

(* The value of a hexadecimal digit, -1 for another character. *)
hexValue(c) ==
  CASE c \in {"0", "1", "2", "3", "4", "5", "6", "7", "8", "9"} ->
         (CHOOSE d \in 0..9 : HexDigits[d + 1] = c)
    [] c \in {"a", "b", "c", "d", "e", "f"} ->
         (CHOOSE d \in 10..15 : HexDigits[d + 1] = c)
    [] c = "A" -> 10 [] c = "B" -> 11 [] c = "C" -> 12
    [] c = "D" -> 13 [] c = "E" -> 14 [] c = "F" -> 15
    [] OTHER -> -1

(* hexPrefix reading the digits in base 10. *)
RECURSIVE hexPrefix_decimal(_, _, _)
hexPrefix_decimal(s, i, acc) ==
  IF i <= Len(s) /\ hexValue(s[i]) >= 0
    THEN hexPrefix_decimal(s, i + 1, acc * 10 + hexValue(s[i]))
  ELSE acc

(* The longest prefix of hexadecimal digits of s from i on, as a number. *)
RECURSIVE hexPrefix(_, _, _)
hexPrefix(s, i, acc) ==
  IF i <= Len(s) /\ hexValue(s[i]) >= 0
    THEN hexPrefix(s, i + 1, acc * 16 + hexValue(s[i]))
  ELSE acc

(* parseInt(s, 16) *)
parseInt16(str) ==
  LET s0 == trimStart(str)
      neg == s0 # <<>> /\ Head(s0) = "-"
      s1 == IF s0 # <<>> /\ Head(s0) \in {"-", "+"} THEN Tail(s0) ELSE s0
      s2 == IF Len(s1) >= 2 /\ s1[1] = "0" /\ s1[2] \in {"x", "X"}
              THEN SubSeq(s1, 3, Len(s1)) ELSE s1
  IN IF s2 = <<>> \/ hexValue(Head(s2)) < 0 THEN NaN
     ELSE Num((IF neg THEN -1 ELSE 1) * hexPrefix(s2, 1, 0))

(* parseInt(n, 16), with NaN replaced by 0 *)
parseOrZero(s) == LET n == parseInt16(s) IN IF n.nan THEN 0 ELSE n.v

(***************************************************************************)
(* decode.  A decoded tag has weak, etag, size, mtime and hash; st is      *)
(* "undefined" when decode returns undefined and "throw" when it throws.   *)
(***************************************************************************)
Decoded(st, weak, etag, size, mtime, hash) ==
  [st |-> st, weak |-> weak, etag |-> etag, size |-> size, mtime |-> mtime,
   hash |-> hash]
NotDecoded(st) ==
  Decoded(st, FALSE, <<>>, Num(0), Absent, [t |-> "absent", s |-> <<>>])

decodeStatTag(value) ==
  LET parts == splitDash(value)
      size == IF Len(parts) >= 1 THEN Num(parseOrZero(parts[1]))
              ELSE Val("undefined", FALSE, 0, 0)
      mtime == IF Len(parts) >= 2 THEN DateOf(parseOrZero(parts[2]))
               ELSE InvalidDate
  IN [size |-> size, mtime |-> mtime, hash |-> [t |-> "undefined", s |-> <<>>]]

decodeEntityTag(value) ==
  LET parts == splitDash(value)
      size == parseOrZero(parts[1])
      hash == IF Len(parts) >= 2 THEN [t |-> "string", s |-> parts[2]]
              ELSE [t |-> "undefined", s |-> <<>>]
  IN [size |-> Num(size), hash |-> hash,
      mtime |-> Val("undefined", FALSE, 0, 0)]

(* etag.replace: a string that is, after an optional weak prefix, enclosed *)
(* in double quotes is replaced by what the quotes enclose; any other      *)
(* string is left as it is.                                                *)
unquote(etag) ==
  LET body == IF startsWith(etag, WeakPrefix) THEN SubSeq(etag, 3, Len(etag))
              ELSE etag
  IN IF Len(body) >= 2 /\ body[1] = "\"" /\ body[Len(body)] = "\""
       THEN SubSeq(body, 2, Len(body) - 1)
     ELSE etag

(* decode taking a second segment of exactly ETAG_MTIME_LENGTH characters *)
(* for a hash.                                                            *)
decode_below(input) ==
  LET etag == trim(input)
      weak == startsWith(etag, WeakPrefix)
      value == trim(unquote(etag))
      parts == splitDash(value)
  IN IF Len(parts) < 2 THEN NotDecoded("undefined")
     ELSE LET isStatTag == Len(parts[2]) < ETAG_MTIME_LENGTH
              d == IF isStatTag THEN decodeStatTag(value)
                   ELSE decodeEntityTag(value)
          IN Decoded("ok", weak, etag, d.size, d.mtime, d.hash)

decode(input) ==
  LET etag == trim(input)
      weak == startsWith(etag, WeakPrefix)
      value == trim(unquote(etag))
      parts == splitDash(value)
  IN IF Len(parts) < 2 THEN NotDecoded("undefined")
     ELSE LET isStatTag == Len(parts[2]) <= ETAG_MTIME_LENGTH
              d == IF isStatTag THEN decodeStatTag(value)
                   ELSE decodeEntityTag(value)
          IN Decoded("ok", weak, etag, d.size, d.mtime, d.hash)

decodeStatTag_1(value) ==
  LET parts == splitDash(value)
      size == IF Len(parts) >= 1 THEN Num(parseOrZero(parts[1]))
              ELSE Val("undefined", FALSE, 0, 0)
      mtime == IF Len(parts) >= 2 THEN DateOf(parseOrZero(parts[2]))
               ELSE InvalidDate
  IN [size |-> size, mtime |-> mtime, hash |-> [t |-> "null", s |-> <<>>]]

decodeEntityTag_1(value) ==
  LET parts == splitDash(value)
      size == parseOrZero(parts[1])
      hash == IF Len(parts) >= 2 THEN [t |-> "string", s |-> parts[2]]
              ELSE [t |-> "undefined", s |-> <<>>]
  IN [size |-> Num(size), hash |-> hash, mtime |-> Null]

decode_1(input) ==
  LET etag == trim(input)
      weak == startsWith(etag, WeakPrefix)
      value == trim(unquote(etag))
      parts == splitDash(value)
  IN IF Len(parts) < 2 THEN NotDecoded("throw")
     ELSE LET isStatTag == Len(parts[2]) <= ETAG_MTIME_LENGTH_1
              d == IF isStatTag THEN decodeStatTag_1(value)
                   ELSE decodeEntityTag_1(value)
          IN Decoded("ok", weak, etag, d.size, d.mtime, d.hash)

(***************************************************************************)
(* The conditional matcher.                                                *)
(***************************************************************************)
Star == <<"*">>

(* ifMatch without the test for the wildcard. *)
ifMatch_listOnly(value, e, o, t) ==
  LET opt == normalize(o)
      etag == encode(e, asOptions(opt), t)
  IN IF etag.st = "throw" THEN etag
     ELSE IF startsWith(etag.val, WeakPrefix) THEN Ret(FALSE)
     ELSE Ret(includes(splitComma(value), etag.val))

(* ifMatch comparing the tag with the first candidate only. *)
ifMatch_firstOnly(value, e, o, t) ==
  LET opt == normalize(o)
      etag == encode(e, asOptions(opt), t)
  IN IF etag.st = "throw" THEN etag
     ELSE IF startsWith(etag.val, WeakPrefix) THEN Ret(FALSE)
     ELSE IF trim(value) = Star THEN Ret(TRUE)
     ELSE Ret(splitComma(value)[1] = etag.val)

ifMatch(value, e, o, t) ==
  LET opt == normalize(o)
      etag == encode(e, asOptions(opt), t)
  IN IF etag.st = "throw" THEN etag
     ELSE IF startsWith(etag.val, WeakPrefix) THEN Ret(FALSE)
     ELSE IF trim(value) = Star THEN Ret(TRUE)
     ELSE Ret(includes(splitComma(value), etag.val))

(* opt = { weak: is.boolean(options) ? !!options : false, statTag: false }, *)
(* and Object.assign(opt, options) for a plain object                      *)
assignPlain(o) ==
  IF o.t = "object" THEN spreadDefaults(o)
  ELSE [weak |-> IF o.t = "boolean" /\ o.b THEN "true" ELSE "false",
        statTag |-> "false"]

(* ifNoneMatch without the test for the wildcard. *)
ifNoneMatch_listOnly(value, e, o, t) ==
  LET opt == assignPlain(o)
      etag == encode(e, asOptions(opt), t)
  IN IF etag.st = "throw" THEN etag
     ELSE Ret(~includes(splitComma(value), etag.val))

ifNoneMatch(value, e, o, t) ==
  IF trim(value) = Star THEN Ret(FALSE)
  ELSE LET opt == assignPlain(o)
           etag == encode(e, asOptions(opt), t)
       IN IF etag.st = "throw" THEN etag
          ELSE Ret(~includes(splitComma(value), etag.val))

ifMatch_1(value, e, o, t) ==
  LET opt == normalize(o)
      etag == encode_1(e, asOptions(opt), t)
  IN IF etag.st = "throw" THEN etag
     ELSE IF startsWith(etag.val, WeakPrefix) THEN Ret(FALSE)
     ELSE IF trim(value) = Star THEN Ret(TRUE)
     ELSE Ret(includes(splitComma(value), etag.val))

ifNoneMatch_1(value, e, o, t) ==
  IF trim(value) = Star THEN Ret(FALSE)
  ELSE LET opt == normalize(o)
           etag == encode_1(e, asOptions(opt), t)
       IN IF etag.st = "throw" THEN etag
          ELSE Ret(~includes(splitComma(value), etag.val))

(***************************************************************************)
(* The default export, called as a function.                               *)
(***************************************************************************)
(* etagEncode forwarding the entity alone. *)
etagEncode_entityOnly(e, o, t) == encode(e, NoOptions, t)

(* const etagEncode = ((...a) => encode(...a)) *)
etagEncode(e, o, t) == encode(e, o, t)

(* const _default = encode *)
default_1(e, o, t) == encode_1(e, o, t)

(***************************************************************************)
(* The two versions of the module behind one interface.                    *)
(***************************************************************************)
Versions == {"0.0.2", "0.0.1"}

Encode_(v, e, o, t) == IF v = "0.0.2" THEN encode(e, o, t) ELSE encode_1(e, o, t)
Decode_(v, s) == IF v = "0.0.2" THEN decode(s) ELSE decode_1(s)
IfMatch_(v, h, e, o, t) ==
  IF v = "0.0.2" THEN ifMatch(h, e, o, t) ELSE ifMatch_1(h, e, o, t)
IfNoneMatch_(v, h, e, o, t) ==
  IF v = "0.0.2" THEN ifNoneMatch(h, e, o, t) ELSE ifNoneMatch_1(h, e, o, t)
IsFileInfo_(v, e) == IF v = "0.0.2" THEN isFileInfo(e) ELSE isFileInfo_1(e)
EtagEncode_(v, e, o, t) ==
  IF v = "0.0.2" THEN etagEncode(e, o, t) ELSE default_1(e, o, t)
CalcStatTag_(v, e, t) ==
  IF v = "0.0.2" THEN calcStatTag(e, t) ELSE calcStatTag_1(e, t)

(***************************************************************************)
(* The inputs of the model.                                                *)
(***************************************************************************)
Texts == {Text(cps) : cps \in SeqsUpTo(CodePoints, MaxLen)}
Uint8Arrays == {Uint8(bs) : bs \in SeqsUpTo(ByteValues, MaxLen)}
ArrayBuffers == {Buffer(bs) : bs \in SeqsUpTo(ByteValues, MaxLen)}

(* Modification times: a Date, the numbers 0 and 7, a date string, the *)
(* empty string, a string that is no date, an invalid Date.            *)
Mtimes ==
  {DateOf(5), Num(0), Num(7), DateStr(9, 24), BadStr(0), BadStr(3),
   InvalidDate}

Records ==
  {Info(Num(1), Num(20), m, DateOf(1)) : m \in Mtimes}
  \cup {Info(Num(1), Num(0), DateOf(5), DateOf(1)),
        Info(Num(1), Num(20), DateOf(5), Absent),
        Info(Absent, Num(20), DateOf(5), DateOf(1)),
        Info(Null, Num(20), Null, DateOf(1)),
        Stats(Num(1), Num(20), DateOf(5), DateOf(1)),
        Stats(Num(1), Num(20), Null, DateOf(1))}

Entities ==
  Texts \cup Uint8Arrays \cup ArrayBuffers \cup Records
  \cup {NullEntity, UndefinedEntity}

OptionValues ==
  {NoOptions, NullOptions, BoolOptions(TRUE), BoolOptions(FALSE),
   ObjOptions("absent", "absent"), ObjOptions("true", "absent"),
   ObjOptions("false", "absent"), ObjOptions("undefined", "absent"),
   ObjOptions("absent", "true"), NumOptions}

(* A tag of another entity. *)
OtherTag == <<"\"", "1", "-", "x", "\"">>

HeaderKinds ==
  {"star", "padded star", "other", "tag", "list tail", "list head",
   "weak tag", "padded tag"}

(* The header value of a kind, built around the tag t. *)
Header(kind, t) ==
  CASE kind = "star" -> Star
    [] kind = "padded star" -> <<" ">> \o Star \o <<" ">>
    [] kind = "other" -> OtherTag
    [] kind = "tag" -> t
    [] kind = "list tail" -> OtherTag \o <<",", " ">> \o t
    [] kind = "list head" -> t \o <<" ", ",">> \o OtherTag
    [] kind = "weak tag" -> WeakPrefix \o t
    [] kind = "padded tag" -> <<" ">> \o t

(* The last call of ifMatch or ifNoneMatch: the kind of its header value, *)
(* the tag the value was built around, and what the call returned.        *)
Call(op, kind, from, st, res) ==
  [op |-> op, kind |-> kind, from |-> from, st |-> st, res |-> res]
NoCall == Call("none", "star", <<>>, "none", FALSE)

(***************************************************************************)
(* The response that the middleware works on: its ETag header (a result,   *)
(* st "none" when the header is absent), its body (null, or the bytes of   *)
(* its stream) and bodyUsed.  run holds the position of the middleware     *)
(* (mw), what the downstream handler started by next() does (handler) and  *)
(* where it stands (at), the pending result of response.arrayBuffer()      *)
(* (buffer) and the number of passes of the middleware.                    *)
(***************************************************************************)
Resp(etag, body, bodyUsed) ==
  [etag |-> etag, body |-> body, bodyUsed |-> bodyUsed]
NullBody == [null |-> TRUE, bytes |-> <<>>]
BodyOf(bytes) == [null |-> FALSE, bytes |-> bytes]
NoResponse == Resp(NoResult, NullBody, FALSE)

Bodies == {NullBody} \cup {BodyOf(bs) : bs \in SeqsUpTo(ByteValues, MaxLen)}

Run(mw, handler, at, buffer, pass) ==
  [mw |-> mw, handler |-> handler, at |-> at, buffer |-> buffer, pass |-> pass]
NotRunning == Run("idle", "none", "idle", UndefinedEntity, 0)

(* A downstream handler sets no ETag header, sets one before its first     *)
(* await, or sets one after it.                                            *)
Handlers == {"none", "sync", "async"}

(* The tag that the application or the downstream handler sets. *)
HandlerTag == Ret(OtherTag)

(***************************************************************************)
(* The state machine.  A behaviour fixes the loaded version, an entity and *)
(* an options value, and calls the operations on them as the clock runs:   *)
(* encode and the conditional matcher under Spec; encode, the default      *)
(* export and decode under SpecCodec.                                      *)
(***************************************************************************)
Init ==
  /\ version \in Versions
  /\ entity \in Entities
  /\ options \in OptionValues
  /\ now = Epoch
  /\ tag = NoResult
  /\ decoded = NotDecoded("none")
  /\ cond = NoCall
  /\ response = NoResponse
  /\ run = NotRunning

(* Time passes: Date.now() grows. *)
Tick ==
  /\ now < Epoch + MaxTicks
  /\ now' = now + 1
  /\ UNCHANGED <<version, entity, options, tag, decoded, cond, response, run>>

(* tag = encode(entity, options) *)
Encode ==
  /\ tag' = Encode_(version, entity, options, now)
  /\ UNCHANGED <<version, entity, options, now, decoded, cond, response, run>>

(* tag = etag(entity, options), etag being the default export *)
EtagDefault ==
  /\ tag' = EtagEncode_(version, entity, options, now)
  /\ UNCHANGED <<version, entity, options, now, decoded, cond, response, run>>

(* decoded = decode(tag) *)
Decode ==
  /\ tag.st = "ok"
  /\ decoded' = Decode_(version, tag.val)
  /\ UNCHANGED <<version, entity, options, now, tag, cond, response, run>>

(* ifMatch(header, entity, options) *)
IfMatch ==
  \E kind \in HeaderKinds :
    /\ kind \in {"tag", "list tail", "list head"} => tag.st = "ok"
    /\ LET from == IF tag.st = "ok" THEN tag.val ELSE <<>> IN
       \E r \in {IfMatch_(version, Header(kind, from), entity, options, now)} :
         cond' = Call("ifMatch", kind, from, r.st,
                      IF r.st = "ok" THEN r.val ELSE FALSE)
    /\ UNCHANGED <<version, entity, options, now, tag, decoded, response, run>>

(* ifNoneMatch(header, entity, options) *)
IfNoneMatch ==
  \E kind \in HeaderKinds :
    /\ kind \in {"tag", "list tail", "list head"} => tag.st = "ok"
    /\ LET from == IF tag.st = "ok" THEN tag.val ELSE <<>> IN
       \E r \in {IfNoneMatch_(version, Header(kind, from), entity, options,
                                now)} :
         cond' = Call("ifNoneMatch", kind, from, r.st,
                      IF r.st = "ok" THEN r.val ELSE FALSE)
    /\ UNCHANGED <<version, entity, options, now, tag, decoded, response, run>>

Next == Tick \/ Encode \/ IfMatch \/ IfNoneMatch

Spec == Init /\ [][Next]_vars

NextCodec == Tick \/ Encode \/ EtagDefault \/ Decode

SpecCodec == Init /\ [][NextCodec]_vars

(***************************************************************************)
(* decode on its own.  The tag at hand is a string received from outside:  *)
(* a payload of a first and a second segment joined by a dash, or a        *)
(* payload without a dash, or one with several dashes, bare or in quotes,  *)
(* with or without the weak prefix.  strict is the value of a first        *)
(* segment that is a hexadecimal number and 0 for another one; lead is the *)
(* value of its leading hexadecimal digits.  ms is the value of a second   *)
(* segment that is a hexadecimal number.                                   *)
(***************************************************************************)
FirstSegments ==
  {[s |-> <<"1", "4">>, hex |-> TRUE, strict |-> 20, lead |-> 20],
   [s |-> <<"0", "x", "1", "4">>, hex |-> TRUE, strict |-> 20, lead |-> 20],
   [s |-> <<"z", "z">>, hex |-> FALSE, strict |-> 0, lead |-> 0],
   [s |-> <<>>, hex |-> FALSE, strict |-> 0, lead |-> 0],
   [s |-> <<"1", "g">>, hex |-> FALSE, strict |-> 0, lead |-> 1]}

SecondSegments ==
  {[s |-> <<"1", "8", "a", "2", "f", "3">>, hex |-> TRUE, ms |-> 1614579],
   [s |-> <<"0", "0", "0", "0", "0", "0", "0", "0", "0", "1", "8", "a">>,
    hex |-> TRUE, ms |-> 394],
   [s |-> <<"0", "0", "0", "0", "0", "0", "0", "0", "0", "0", "1", "8", "a">>,
    hex |-> TRUE, ms |-> 394],
   [s |-> slice(computeHexDigestBase64(<<>>), ETAG_LENGTH), hex |-> FALSE,
    ms |-> 0],
   [s |-> <<"q", "q">>, hex |-> FALSE, ms |-> 0],
   [s |-> <<>>, hex |-> FALSE, ms |-> 0]}

(* Payloads without a dash. *)
DashlessPayloads == {<<>>, <<"a", "b", "c">>, <<"1", "4">>}

Forms == {"bare", "quoted", "weak quoted", "weak bare"}

(* The input of a form around the payload p. *)
Wrap(form, p) ==
  CASE form = "bare" -> p
    [] form = "quoted" -> Quote \o p \o Quote
    [] form = "weak quoted" -> WeakPrefix \o Quote \o p \o Quote
    [] form = "weak bare" -> WeakPrefix \o p

(* Payloads with more than one dash: the payload of the tag of a record   *)
(* of size 20 modified 5 ms before 1970, and two with a third piece.      *)
ManyDashPayloads ==
  {<<"1", "4", "-", "-", "5">>,
   <<"1", "4", "-", "1", "8", "a", "-", "2", "f", "3">>,
   <<"1", "4", "-", "0", "0", "0", "0", "0", "0", "0", "0", "1", "8", "-",
     "a", "b", "c", "d", "e", "f", "g">>}

DecodeInputs ==
  {Wrap(f, a.s \o Dash \o b.s) :
     f \in Forms, a \in FirstSegments, b \in SecondSegments}
  \cup {Wrap(f, p) : f \in Forms, p \in DashlessPayloads}
  \cup {Wrap(f, p) : f \in Forms, p \in ManyDashPayloads}

InitDecode ==
  /\ version \in Versions
  /\ entity = UndefinedEntity
  /\ options = NoOptions
  /\ now = Epoch
  /\ tag \in {Ret(input) : input \in DecodeInputs}
  /\ decoded = NotDecoded("none")
  /\ cond = NoCall
  /\ response = NoResponse
  /\ run = NotRunning

NextDecode == Decode

SpecDecode == InitDecode /\ [][NextDecode]_vars

(***************************************************************************)
(* encode and decode on file-metadata records: the records of the model,   *)
(* a record modified before 1970 (a negative time), and a record modified  *)
(* at 16^12 milliseconds, the first time of thirteen hexadecimal digits    *)
(* (the year 10889; a Date reaches to 8.64 * 10^15 milliseconds).          *)
(***************************************************************************)
MetaRecords ==
  Records
  \cup {Info(Num(1), Num(20), Num(-5), DateOf(1)),
        Info(Num(1), Num(20), DateOfScaled(1, 12), DateOf(1))}

InitMeta ==
  /\ version \in Versions
  /\ entity \in MetaRecords
  /\ options \in OptionValues
  /\ now = Epoch
  /\ tag = NoResult
  /\ decoded = NotDecoded("none")
  /\ cond = NoCall
  /\ response = NoResponse
  /\ run = NotRunning

SpecMeta == InitMeta /\ [][NextCodec]_vars

(***************************************************************************)
(* The middleware that factory(options) returns, run on a context whose    *)
(* response is a Response.  JavaScript runs each piece of an async         *)
(* function up to its next await without interruption, so an action is one *)
(* such piece; the pieces of the middleware and of the downstream handler  *)
(* interleave at the awaits.  The application may have set an ETag header  *)
(* before the middleware runs, and may run the middleware again.           *)
(***************************************************************************)
InitMiddleware ==
  /\ version \in Versions
  /\ entity = UndefinedEntity
  /\ options \in OptionValues
  /\ now = Epoch
  /\ tag = NoResult
  /\ decoded = NotDecoded("none")
  /\ cond = NoCall
  /\ response \in {Resp(e, b, FALSE) : e \in {NoResult, HandlerTag}, b \in Bodies}
  /\ run \in {Run("idle", h, "idle", UndefinedEntity, 1) : h \in Handlers}

(* next(), not awaited: the downstream handler runs up to its first await. *)
MwNext ==
  /\ run.mw = "idle"
  /\ run' = [run EXCEPT !.mw = "called",
                        !.at = IF run.handler = "async" THEN "awaiting"
                               ELSE "done"]
  /\ response' = IF run.handler = "sync"
                   THEN [response EXCEPT !.etag = HandlerTag]
                 ELSE response
  /\ UNCHANGED <<version, entity, options, now, tag, decoded, cond>>

(* if (!ctx.response.headers.has("ETag")) { ... await getEntity(ctx):      *)
(* getEntity throws on a body that is used, and otherwise calls            *)
(* response.arrayBuffer(), which reads the body, and awaits its result.    *)
MwCheck ==
  /\ run.mw = "called"
  /\ IF response.etag.st # "none"
       THEN /\ run' = [run EXCEPT !.mw = "fulfilled"]
            /\ UNCHANGED response
     ELSE IF response.bodyUsed
       THEN /\ run' = [run EXCEPT !.mw = "rejected"]
            /\ UNCHANGED response
     ELSE /\ run' = [run EXCEPT !.mw = "awaiting",
                                !.buffer = Buffer(response.body.bytes)]
          /\ response' = [response EXCEPT !.bodyUsed = ~response.body.null]
  /\ UNCHANGED <<version, entity, options, now, tag, decoded, cond>>

(* getEntity returns the ArrayBuffer;                                      *)
(* if (entity) ctx.response.headers.set("ETag", encode(entity, opt))       *)
MwResume ==
  /\ run.mw = "awaiting"
  /\ \E r \in {Encode_(version, run.buffer, asOptions(normalize(options)),
                        now)} :
       IF r.st = "throw"
         THEN /\ run' = [run EXCEPT !.mw = "rejected"]
              /\ UNCHANGED response
       ELSE /\ run' = [run EXCEPT !.mw = "fulfilled"]
            /\ response' = [response EXCEPT !.etag = r]
  /\ UNCHANGED <<version, entity, options, now, tag, decoded, cond>>

(* The downstream handler goes on after its await and sets its header. *)
HandlerResume ==
  /\ run.at = "awaiting"
  /\ run.mw # "called"
  /\ run' = [run EXCEPT !.at = "done"]
  /\ response' = [response EXCEPT !.etag = HandlerTag]
  /\ UNCHANGED <<version, entity, options, now, tag, decoded, cond>>

(* The middleware is run once more on the same response. *)
MwAgain ==
  /\ run.mw \in {"fulfilled", "rejected"}
  /\ run.at # "awaiting"
  /\ run.pass < MaxPasses
  /\ run' = [run EXCEPT !.mw = "idle", !.at = "idle", !.pass = @ + 1]
  /\ UNCHANGED <<version, entity, options, now, tag, decoded, cond, response>>

NextMiddleware == MwNext \/ MwCheck \/ MwResume \/ HandlerResume \/ MwAgain

SpecMiddleware == InitMiddleware /\ [][NextMiddleware]_vars

(***************************************************************************)
(* Notions the properties are stated in.                                   *)
(***************************************************************************)
(* A content entity: a text, a Uint8Array or an ArrayBuffer. *)
IsContent(e) == e.t \in {"string", "Uint8Array", "ArrayBuffer"}

(* The byte length of a content entity; of a text, that of its UTF-8 form. *)
ByteLength(e) ==
  IF e.t = "string" THEN Len(utf8Encode(e.data)) ELSE Len(e.data)

(* The options ask for a weak tag: true, or an object whose weak is true. *)
RequestsWeak(o) == (o.t = "boolean" /\ o.b) \/ (o.t = "object" /\ o.weak = "true")

IsWeak(s) == startsWith(s, WeakPrefix)

(* The payload of a tag: the tag without the weak prefix and the quotes. *)
Payload(s) ==
  LET body == IF IsWeak(s) THEN SubSeq(s, 3, Len(s)) ELSE s
  IN SubSeq(body, 2, Len(body) - 1)

(* The k-th segment of the payload of a tag. *)
Segment(s, k) == splitDash(Payload(s))[k]

(* C1: whenever encode returns a tag, the tag starts with the weak prefix  *)
(* if and only if the entity qualifies as a file-metadata record or the    *)
(* options request weak.                                                   *)
C1_WeakPrefixIff ==
  tag.st = "ok" =>
    (IsWeak(tag.val) <=> (IsFileInfo_(version, entity) \/ RequestsWeak(options)))

(* C2: for a content entity, the first payload segment of the tag is the   *)
(* byte length of the entity in base 16.                                   *)
C2_HexByteLength ==
  (tag.st = "ok" /\ IsContent(entity)) =>
    Segment(tag.val, 1) = natToString(ByteLength(entity), 16)

(* C3: for a content entity encoded with default options, decode of the    *)
(* tag is defined and its size is the byte length of the entity.           *)
C3_RoundTripSize ==
  (decoded.st # "none" /\ IsContent(entity) /\ options = NoOptions) =>
    (decoded.st = "ok" /\ decoded.size = Num(ByteLength(entity)))

(* C4: encode of a content entity of length zero, with default options,    *)
(* returns the constant ETAG_EMPTY.                                        *)
C4_EmptyConstant ==
  (tag.st = "ok" /\ IsContent(entity) /\ ByteLength(entity) = 0
     /\ options = NoOptions) =>
    tag.val = ETAG_EMPTY

(* C5, as claimed: for every content entity, the zero-length ones          *)
(* included, the second payload segment of the tag has 27 characters.      *)
C5_DigestLength ==
  (tag.st = "ok" /\ IsContent(entity)) => Len(Segment(tag.val, 2)) = 27

(* C5, amended: for every content entity of non-zero length the second     *)
(* payload segment of the tag has 27 characters; for a content entity of   *)
(* length zero it has 27 characters or is the second segment of            *)
(* ETAG_EMPTY, of 28 characters, which is the case for the empty           *)
(* Uint8Array.                                                             *)
C5_DigestLengthAmended ==
  (tag.st = "ok" /\ IsContent(entity)) =>
    /\ ByteLength(entity) > 0 => Len(Segment(tag.val, 2)) = 27
    /\ ByteLength(entity) = 0 =>
         \/ Len(Segment(tag.val, 2)) = 27
         \/ /\ Segment(tag.val, 2) = Segment(ETAG_EMPTY, 2)
            /\ Len(Segment(tag.val, 2)) = 28
    /\ entity = Uint8(<<>>) => Segment(tag.val, 2) = Segment(ETAG_EMPTY, 2)

C5_Witness ==
  /\ tag.st = "ok"
  /\ entity = Text(<<233>>)
  /\ Len(Segment(tag.val, 2)) = 27

(* C6: two calls of encode on the same entity and options, at different    *)
(* clock times, return the same string.                                    *)
C6_Deterministic ==
  [][(tag.st = "ok" /\ tag'.st = "ok") => tag'.val = tag.val]_vars

(* C7: a call of ifMatch that returns, returns false for every header      *)
(* value whenever the entity is a file-metadata record or the options      *)
(* request weak.                                                           *)
C7_IfMatchNeverWeak ==
  (cond.op = "ifMatch" /\ cond.st = "ok"
     /\ (IsFileInfo_(version, entity) \/ RequestsWeak(options))) =>
    cond.res = FALSE

(* C8: for a content entity and default options, ifMatch of the wildcard   *)
(* returns true.                                                           *)
C8_IfMatchWildcard ==
  (cond.op = "ifMatch" /\ cond.kind = "star" /\ IsContent(entity)
     /\ options = NoOptions) =>
    (cond.st = "ok" /\ cond.res = TRUE)

C8_Witness ==
  /\ cond.op = "ifMatch"
  /\ cond.kind = "star"
  /\ entity = Uint8(<<>>)
  /\ options = NoOptions
  /\ cond.st = "ok"
  /\ cond.res = TRUE

(* C9: ifNoneMatch of the wildcard returns false, for every entity and     *)
(* every options value.                                                    *)
C9_IfNoneMatchWildcard ==
  (cond.op = "ifNoneMatch" /\ cond.kind = "star") =>
    (cond.st = "ok" /\ cond.res = FALSE)

C9_Witness ==
  /\ cond.op = "ifNoneMatch"
  /\ cond.kind = "star"
  /\ entity = NullEntity
  /\ cond.st = "ok"
  /\ cond.res = FALSE

(* C10: for a strong tag t returned by encode with default options,        *)
(* ifMatch of t, alone or as an element of a list, returns true and        *)
(* ifNoneMatch of it returns false.                                        *)
C10_Complementarity ==
  (cond.op # "none" /\ cond.kind \in {"tag", "list tail", "list head"}
     /\ options = NoOptions /\ ~IsWeak(cond.from)) =>
    /\ cond.st = "ok"
    /\ cond.op = "ifMatch" => cond.res = TRUE
    /\ cond.op = "ifNoneMatch" => cond.res = FALSE

(* The candidates of the header value of a kind built around the tag t:    *)
(* the pieces between its commas, without the white space around the       *)
(* commas.                                                                 *)
Candidates(kind, t) ==
  CASE kind = "star" -> <<Star>>
    [] kind = "padded star" -> <<<<" ">> \o Star \o <<" ">>>>
    [] kind = "other" -> <<OtherTag>>
    [] kind = "tag" -> <<t>>
    [] kind = "list tail" -> <<OtherTag, t>>
    [] kind = "list head" -> <<t, OtherTag>>
    [] kind = "weak tag" -> <<WeakPrefix \o t>>
    [] kind = "padded tag" -> <<<<" ">> \o t>>

IsWildcard(kind) == kind \in {"star", "padded star"}

C12_IfNoneMatchList ==
  (cond.op = "ifNoneMatch" /\ cond.kind \in {"tag", "list tail", "list head"}) =>
    (cond.st = "ok" /\ cond.res = FALSE)

(* C13: decode never throws: it returns a decoded record or undefined, and *)
(* for a payload without a dash, the empty string included, it returns     *)
(* undefined.                                                              *)
C13_DecodeNeverThrows ==
  /\ decoded.st # "throw"
  /\ \A f \in Forms, p \in DashlessPayloads :
       (tag.val = Wrap(f, p) /\ decoded.st # "none") =>
         decoded.st = "undefined"

(* C14: the length of the second payload segment alone decides the         *)
(* variant of a decoded record: up to 12 characters, mtime is a Date (that *)
(* of the segment read as hexadecimal milliseconds) and hash is not        *)
(* populated; above 12, hash is the segment and mtime is not populated.    *)
C14_VariantByLength ==
  \A f \in Forms, a \in FirstSegments, b \in SecondSegments :
    (tag.val = Wrap(f, a.s \o Dash \o b.s) /\ decoded.st = "ok") =>
      IF Len(b.s) <= 12
        THEN /\ decoded.mtime.t = "Date"
             /\ b.hex => decoded.mtime = DateOf(b.ms)
             /\ decoded.hash.t \in {"undefined", "null"}
      ELSE /\ decoded.hash = [t |-> "string", s |-> b.s]
           /\ decoded.mtime.t \in {"undefined", "null"}

C14_Witness ==
  /\ decoded.st = "ok"
  /\ tag.val = Wrap("weak quoted",
                    <<"1", "4", "-", "1", "8", "a", "2", "f", "3">>)
  /\ decoded.mtime = DateOf(1614579)
  /\ decoded.hash.t = "undefined"

(* The forms of input whose payload is what the quotes enclose, or the     *)
(* whole input.                                                            *)
PayloadForms == {"bare", "quoted", "weak quoted"}

C16_FormsDecodeAlike ==
  \A f \in Forms, a \in FirstSegments, b \in SecondSegments :
    (a.hex /\ tag.val = Wrap(f, a.s \o Dash \o b.s) /\ decoded.st # "none") =>
      LET bare == Decode_(version, a.s \o Dash \o b.s) IN
      /\ decoded.st = "ok"
      /\ decoded.size = bare.size
      /\ decoded.mtime = bare.mtime
      /\ decoded.hash = bare.hash
      /\ decoded.weak = (f \in {"weak quoted", "weak bare"})

(* C17: encode of null or undefined throws a TypeError for every options   *)
(* value and returns no tag, and ifMatch and ifNoneMatch, unless           *)
(* ifNoneMatch is given the wildcard, throw it too and return no boolean.  *)
C17_InvalidEntityThrows ==
  entity \in {NullEntity, UndefinedEntity} =>
    /\ tag.st # "none" => tag = Throw(<<"TypeError">>)
    /\ (cond.op = "ifMatch"
          \/ (cond.op = "ifNoneMatch" /\ ~IsWildcard(cond.kind))) =>
         LET header == Header(cond.kind, cond.from)
             r == IF cond.op = "ifMatch"
                    THEN IfMatch_(version, header, entity, options, now)
                  ELSE IfNoneMatch_(version, header, entity, options, now)
         IN /\ cond.st = "throw"
            /\ r.st = "throw"
            /\ r.val = <<"TypeError">>

C17_Witness ==
  /\ entity = NullEntity
  /\ tag.st = "throw"
  /\ cond.op = "ifNoneMatch"
  /\ cond.kind = "other"
  /\ cond.st = "throw"

(* The options object that a boolean is the shorthand of, and the default  *)
(* options for null, undefined and a value that is neither an object nor a *)
(* boolean.                                                                *)
EquivalentOptions(o) ==
  CASE o.t = "boolean" -> ObjOptions(IF o.b THEN "true" ELSE "false", "absent")
    [] o.t \in {"undefined", "null", "number"} -> NoOptions
    [] OTHER -> o

(* The record of a call that returned or threw r. *)
CallOf(op, kind, from, r) ==
  Call(op, kind, from, r.st, IF r.st = "ok" THEN r.val ELSE FALSE)

(* C18: the result of every call of encode, ifMatch and ifNoneMatch with a *)
(* boolean is the result, at the clock reading of the call, of the call    *)
(* with the object of that weak, and the result of every call with null,   *)
(* undefined or a value that is neither an object nor a boolean is that of *)
(* the call with default options, which for a content entity is no error.  *)
C18_OptionShapes ==
  options.t # "object" =>
    /\ tag.st # "none" =>
         \E t \in Epoch..now :
           tag = Encode_(version, entity, EquivalentOptions(options), t)
    /\ cond.op = "ifMatch" =>
         \E t \in Epoch..now :
           \E r \in {IfMatch_(version, Header(cond.kind, cond.from), entity,
                              EquivalentOptions(options), t)} :
             cond = CallOf("ifMatch", cond.kind, cond.from, r)
    /\ cond.op = "ifNoneMatch" =>
         \E t \in Epoch..now :
           \E r \in {IfNoneMatch_(version, Header(cond.kind, cond.from),
                                  entity, EquivalentOptions(options), t)} :
             cond = CallOf("ifNoneMatch", cond.kind, cond.from, r)
    /\ IsContent(entity) => (tag.st # "throw" /\ cond.st # "throw")

C18_Witness ==
  /\ options = BoolOptions(TRUE)
  /\ IsContent(entity)
  /\ tag.st = "ok"
  /\ IsWeak(tag.val)
  /\ cond.op = "ifNoneMatch"
  /\ cond.kind = "tag"
  /\ cond.res = FALSE

(* The options pass weak explicitly: a boolean, or an object whose weak is *)
(* true or false.                                                          *)
ExplicitWeak(o) ==
  o.t = "boolean" \/ (o.t = "object" /\ o.weak \in {"true", "false"})

(* C19: when the options pass weak explicitly, the tag returned by encode  *)
(* has the weak prefix exactly when that weak is true.                     *)
C19_WeakOverrides ==
  (tag.st = "ok" /\ ExplicitWeak(options)) =>
    (IsWeak(tag.val) <=> RequestsWeak(options))

(* A tag without its weak prefix. *)
Unprefixed(s) == IF IsWeak(s) THEN SubSeq(s, 3, Len(s)) ELSE s

(* C20: when the options hold statTag true, encode of an entity that is    *)
(* neither null nor undefined returns a tag computed from the size and the *)
(* modification time of the entity, not from a hash of its contents.       *)
C20_StatTagForces ==
  (tag.st # "none" /\ options.t = "object" /\ options.statTag = "true"
     /\ entity.t \notin {"null", "undefined"}) =>
    /\ tag.st = "ok"
    /\ \E t \in Epoch..now :
         Unprefixed(tag.val) = CalcStatTag_(version, entity, t).val

(* C21: two calls of the same matcher with the same header value, on the   *)
(* same entity and options, return the same result whatever the clock      *)
(* reads at either call, and no call changes the entity or the options.    *)
C21_MatchersDeterministic ==
  [][(cond.op # "none" /\ cond'.op = cond.op /\ cond'.kind = cond.kind
        /\ cond'.from = cond.from) =>
       (cond'.st = cond.st /\ cond'.res = cond.res
          /\ entity' = entity /\ options' = options)]_vars

(* A modification time that is present: a Date, a number, zero included,   *)
(* or a string that Date parses.                                           *)
PresentMtime(m) ==
  /\ m.t \in {"Date", "number", "string"}
  /\ ~m.nan
  /\ m.t = "string" => m.len > 0

(* The options do not turn the weak prefix off. *)
KeepsDefaultWeak(o) == ~(ExplicitWeak(o) /\ ~RequestsWeak(o))

(* C22: for a file-metadata record whose mtime is present, encode returns  *)
(* the weak prefix and, in quotes, the size in base 16, a dash and the     *)
(* epoch milliseconds of that mtime in base 16.                            *)
C22_MtimeHex ==
  (tag.st = "ok" /\ IsFileInfo_(version, entity)
     /\ PresentMtime(entity.mtime) /\ KeepsDefaultWeak(options)) =>
    tag.val = WeakPrefix \o Quote \o toString(entity.size, 16) \o Dash
                \o toString(getTime(entity.mtime), 16) \o Quote

(* C23: every call of the default export returns, or throws, what encode   *)
(* returns or throws for the same entity and options at the same clock     *)
(* reading.                                                                *)
C23_DefaultIsEncode ==
  [][EtagDefault => tag' = Encode_(version, entity, options, now)]_vars

C23_Witness ==
  /\ entity = Text(<<97>>)
  /\ options = BoolOptions(TRUE)
  /\ tag.st = "ok"
  /\ IsWeak(tag.val)
  /\ tag = EtagEncode_(version, entity, options, now)

(* A number in base 16, in lower case: one or more of the digits 0-9, a-f. *)
IsLowerHex(s) ==
  /\ s # <<>>
  /\ \A i \in 1..Len(s) : \E d \in 1..16 : HexDigits[d] = s[i]

(* The index of the first dash of s, and 0 when s holds none. *)
FirstDash(s) ==
  IF \E i \in 1..Len(s) : s[i] = "-"
    THEN CHOOSE i \in 1..Len(s) : s[i] = "-" /\ \A j \in 1..(i - 1) : s[j] # "-"
  ELSE 0

(* What stands before and what stands after the first dash of s. *)
BeforeFirstDash(s) == SubSeq(s, 1, FirstDash(s) - 1)
AfterFirstDash(s) == SubSeq(s, FirstDash(s) + 1, Len(s))

(* C24: a tag returned by encode is, after the optional weak prefix, a     *)
(* payload in double quotes that holds a dash; what stands before the      *)
(* first dash is a number in base 16 and, for a file-metadata record, so   *)
(* is what stands after it.                                                *)
C24_ValidTag ==
  tag.st = "ok" =>
    LET t == Unprefixed(tag.val) IN
    /\ Len(t) >= 2 /\ t[1] = "\"" /\ t[Len(t)] = "\""
    /\ FirstDash(Payload(tag.val)) > 0
    /\ IsLowerHex(BeforeFirstDash(Payload(tag.val)))
    /\ IsFileInfo_(version, entity) => IsLowerHex(AfterFirstDash(Payload(tag.val)))

(* C25: the tag that encode returns for a file-metadata record with a      *)
(* representable modification time has a second payload segment of at most *)
(* ETAG_MTIME_LENGTH characters, and decode of the tag gives the metadata  *)
(* variant: mtime a Date and no hash.                                      *)
C25_MtimeSegmentShort ==
  (decoded.st # "none" /\ IsFileInfo_(version, entity)
     /\ PresentMtime(entity.mtime)) =>
    /\ Len(AfterFirstDash(Payload(decoded.etag))) <= ETAG_MTIME_LENGTH
    /\ decoded.st = "ok"
    /\ decoded.mtime.t = "Date"
    /\ decoded.hash.t # "string"

(* C26: for a payload with more than one dash, decode takes all that       *)
(* stands after the first dash for the second segment: when it has at most *)
(* ETAG_MTIME_LENGTH characters mtime is the Date of its value in base 16, *)
(* and otherwise hash is that whole segment.                               *)
C26_SplitOnFirstDash ==
  \A f \in PayloadForms, p \in ManyDashPayloads :
    (tag.val = Wrap(f, p) /\ decoded.st # "none") =>
      /\ decoded.st = "ok"
      /\ decoded.size = Num(parseOrZero(BeforeFirstDash(p)))
      /\ IF Len(AfterFirstDash(p)) <= ETAG_MTIME_LENGTH
           THEN /\ decoded.mtime = DateOf(parseOrZero(AfterFirstDash(p)))
                /\ decoded.hash.t # "string"
         ELSE /\ decoded.hash = [t |-> "string", s |-> AfterFirstDash(p)]
              /\ decoded.mtime.t # "Date"

(* An object with a numeric size, an ino field and a modification time     *)
(* that is a Date, a string or a number.                                   *)
HasMetadataShape(e) ==
  /\ e.t = "object"
  /\ isNumber(e.size)
  /\ e.ino.t # "absent"
  /\ e.mtime.t \in {"Date", "string", "number"}
  /\ e.mtime.t = "number" => isNumber(e.mtime)

(* C27: for a plain object, encode returns the tag of the size and the     *)
(* modification time exactly when the object has a numeric size, an ino    *)
(* field and a modification time that is a Date, a string or a number,     *)
(* with or without a ctime; every other object goes the way of the content *)
(* tag, where the digest rejects it.                                       *)
C27_MetadataPathIff ==
  (tag.st # "none" /\ entity.t = "object" /\ ~entity.stats) =>
    IF HasMetadataShape(entity)
      THEN /\ tag.st = "ok"
           /\ \E t \in Epoch..now :
                Unprefixed(tag.val) = CalcStatTag_(version, entity, t).val
    ELSE tag.st = "throw"

(* C28: for a file-metadata record with a size that is a natural number    *)
(* and a present mtime, encoded with default options, decode of the tag is *)
(* defined, weak is true, size is the size of the record, mtime is the     *)
(* Date of the epoch milliseconds of its mtime, and there is no hash.      *)
C28_MetadataRoundTrip ==
  (decoded.st # "none" /\ IsFileInfo_(version, entity)
     /\ isNumber(entity.size) /\ entity.size.v >= 0
     /\ PresentMtime(entity.mtime) /\ options = NoOptions) =>
    /\ decoded.st = "ok"
    /\ decoded.weak
    /\ decoded.size = entity.size
    /\ decoded.mtime = [getTime(entity.mtime) EXCEPT !.t = "Date"]
    /\ decoded.hash.t # "string"

(* C29: no step of the middleware changes an ETag header that the response *)
(* holds, whenever the downstream handler takes its steps.                 *)
C29_NeverReplaces ==
  [][((MwCheck \/ MwResume) /\ response.etag.st # "none") =>
       response'.etag = response.etag]_vars

(* C30: when the middleware has run, bodyUsed of the response is false as  *)
(* it was before, and no pass of the middleware has failed.                *)
C30_BodyUnconsumed ==
  run.mw \in {"fulfilled", "rejected"} =>
    (~response.bodyUsed /\ run.mw = "fulfilled")

====
